---- MODULE Spec2Model ----
(***************************************************************************)
(* Model of ascii_artinator_web (src/ascii_artinator_web/src/main.rs): the *)
(* App component (url, state), its update handler, the do_request future   *)
(* with its two suspension points, and the BrailleDisplay view.            *)
(***************************************************************************)
EXTENDS Integers, Sequences, FiniteSets, TLC

\* ---------------------------------------------------------------- bounds
\* Number of GenBraille messages a run may handle.
MaxSubmits == 2

\* Values the text input can hold.
Urls == {"", "http://a/cat.png"}
\* HTTP statuses the endpoint may answer with.
Statuses == {200, 204, 400}
\* Response bodies that decode as text.
Bodies == {"", "art", "bad url"}
\* Message of a transport error (gloo_net::Error of send()).
TransportErrors == {"Failed to fetch"}
\* Message of a body that cannot be decoded as text.
DecodeErrors == {"decode error"}
\* Values of the build-time variable AA_ENDPOINT (<<>> is unset).
EndpointEnvs == {<<>>, <<"https://api.example/braille">>}

\* ------------------------------------------------------------ BrailleState
Waiting == <<"Waiting">>
Requesting == <<"Requesting">>
Showing(s) == <<"Showing", s>>
Error(s) == <<"Error", s>>

Tag(bs) == bs[1]

VARIABLES
    AA_ENDPOINT,  \* option_env!("AA_ENDPOINT"), fixed at build time
    input,        \* value of the <input type="text"> element
    url,          \* App.url
    state,        \* App.state
    futures,      \* the do_request futures spawned by send_future, in spawn order
    rendered,     \* what BrailleDisplay shows after the last render
    nSubmits,     \* history: GenBraille messages handled
    submitted,    \* history: value of the text field at each GenBraille
    delivered,    \* history: indices of the futures whose message was handled, in order
    last          \* history: the last message update handled and the state before it

vars == <<AA_ENDPOINT, input, url, state, futures, rendered, nSubmits,
          submitted, delivered, last>>

\* ------------------------------------------------------------ pure code
get_endpoint(env) == IF env = <<>> THEN "/braille" ELSE env[1]

\* Response::ok(): the status is in the 2xx range.
resp_ok(status) == status >= 200 /\ status <= 299

BrailleDisplay_view_LoadingAtStart(bs) ==
    CASE Tag(bs) = "Waiting"    -> [class |-> "waiting", children |-> <<"Loading...">>]
      [] Tag(bs) = "Requesting" -> [class |-> "waiting", children |-> <<"Loading...">>]
      [] Tag(bs) = "Showing"    -> [class |-> "braille", children |-> <<bs[2]>>]
      [] Tag(bs) = "Error"      -> [class |-> "error", children |-> <<bs[2]>>]

BrailleDisplay_view(bs) ==
    CASE Tag(bs) = "Waiting"    -> [class |-> "waiting", children |-> <<>>]
      [] Tag(bs) = "Requesting" -> [class |-> "waiting", children |-> <<"Loading...">>]
      [] Tag(bs) = "Showing"    -> [class |-> "braille", children |-> <<bs[2]>>]
      [] Tag(bs) = "Error"      -> [class |-> "error", children |-> <<bs[2]>>]

do_request_WrongParam(env, img_url) ==
    [ method   |-> "GET",
      endpoint |-> get_endpoint(env),
      params   |-> << <<"url", img_url>> >>,
      pc       |-> "send",
      req      |-> <<"none">>,
      status   |-> 0,
      text     |-> <<"none">>,
      bs       |-> <<"none">> ]

\* The future do_request(img_url) at its first suspension point (send().await).
do_request(env, img_url) ==
    [ method   |-> "GET",
      endpoint |-> get_endpoint(env),
      params   |-> << <<"img_url", img_url>> >>,
      pc       |-> "send",
      req      |-> <<"none">>,
      status   |-> 0,
      text     |-> <<"none">>,
      bs       |-> <<"none">> ]

do_request_err_Showing(err) == Showing(err)

do_request_err_Waiting(err) == Waiting

\* The match of do_request on a failed send.
do_request_err(err) == Error(err)

do_request_ok_Swapped(status, text) ==
    IF resp_ok(status)
    THEN IF text[1] = "Ok" THEN Error(text[2]) ELSE Error(text[2])
    ELSE IF text[1] = "Ok" THEN Showing(text[2]) ELSE Error(text[2])

do_request_ok_ErrBodyShown(status, text) ==
    IF text[1] = "Ok" THEN Showing(text[2]) ELSE Error(text[2])

do_request_ok_DecodeDefault(status, text) ==
    IF resp_ok(status)
    THEN IF text[1] = "Ok" THEN Showing(text[2]) ELSE Showing("")
    ELSE IF text[1] = "Ok" THEN Error(text[2]) ELSE Error(text[2])

\* The match of do_request on a response whose body was awaited.
do_request_ok(status, text) ==
    IF resp_ok(status)
    THEN IF text[1] = "Ok" THEN Showing(text[2]) ELSE Error(text[2])
    ELSE IF text[1] = "Ok" THEN Error(text[2]) ELSE Error(text[2])

update_KeepState(env, self, msg) ==
    CASE msg[1] = "UrlChange" ->
            [url |-> msg[2], state |-> self.state, spawned |-> <<>>]
      [] msg[1] = "GenBraille" ->
            [url |-> self.url, state |-> self.state,
             spawned |-> <<do_request(env, self.url)>>]
      [] msg[1] = "SetBrailleState" ->
            [url |-> self.url, state |-> msg[2], spawned |-> <<>>]

update_DropResult(env, self, msg) ==
    CASE msg[1] = "UrlChange" ->
            [url |-> msg[2], state |-> self.state, spawned |-> <<>>]
      [] msg[1] = "GenBraille" ->
            [url |-> self.url, state |-> Requesting,
             spawned |-> <<do_request(env, self.url)>>]
      [] msg[1] = "SetBrailleState" ->
            [url |-> self.url, state |-> self.state, spawned |-> <<>>]

update_FirstWins(env, self, msg) ==
    CASE msg[1] = "UrlChange" ->
            [url |-> msg[2], state |-> self.state, spawned |-> <<>>]
      [] msg[1] = "GenBraille" ->
            [url |-> self.url, state |-> Requesting,
             spawned |-> <<do_request(env, self.url)>>]
      [] msg[1] = "SetBrailleState" ->
            [url |-> self.url,
             state |-> IF self.state = Requesting THEN msg[2] ELSE self.state,
             spawned |-> <<>>]

update_ClearUrl(env, self, msg) ==
    CASE msg[1] = "UrlChange" ->
            [url |-> msg[2], state |-> self.state, spawned |-> <<>>]
      [] msg[1] = "GenBraille" ->
            [url |-> "", state |-> Requesting,
             spawned |-> <<do_request(env, self.url)>>]
      [] msg[1] = "SetBrailleState" ->
            [url |-> self.url, state |-> msg[2], spawned |-> <<>>]

update_UrlOnce(env, self, msg) ==
    CASE msg[1] = "UrlChange" ->
            [url |-> IF self.url = "" THEN msg[2] ELSE self.url,
             state |-> self.state, spawned |-> <<>>]
      [] msg[1] = "GenBraille" ->
            [url |-> self.url, state |-> Requesting,
             spawned |-> <<do_request(env, self.url)>>]
      [] msg[1] = "SetBrailleState" ->
            [url |-> self.url, state |-> msg[2], spawned |-> <<>>]

update_UrlResets(env, self, msg) ==
    CASE msg[1] = "UrlChange" ->
            [url |-> msg[2], state |-> Waiting, spawned |-> <<>>]
      [] msg[1] = "GenBraille" ->
            [url |-> self.url, state |-> Requesting,
             spawned |-> <<do_request(env, self.url)>>]
      [] msg[1] = "SetBrailleState" ->
            [url |-> self.url, state |-> msg[2], spawned |-> <<>>]

update_Retry(env, self, msg) ==
    CASE msg[1] = "UrlChange" ->
            [url |-> msg[2], state |-> self.state, spawned |-> <<>>]
      [] msg[1] = "GenBraille" ->
            [url |-> self.url, state |-> Requesting,
             spawned |-> <<do_request(env, self.url)>>]
      [] msg[1] = "SetBrailleState" ->
            [url |-> self.url, state |-> msg[2],
             spawned |-> IF Tag(msg[2]) = "Error"
                         THEN <<do_request(env, self.url)>> ELSE <<>>]

update_KeepPending(env, self, msg) ==
    CASE msg[1] = "UrlChange" ->
            [url |-> msg[2], state |-> self.state, spawned |-> <<>>]
      [] msg[1] = "GenBraille" ->
            [url |-> self.url, state |-> Requesting,
             spawned |-> <<do_request(env, self.url)>>]
      [] msg[1] = "SetBrailleState" ->
            [url |-> self.url,
             state |-> IF Tag(msg[2]) = "Error" THEN self.state ELSE msg[2],
             spawned |-> <<>>]

\* App::update as a function of the component and the message: the new
\* fields and the futures handed to send_future.
update(env, self, msg) ==
    CASE msg[1] = "UrlChange" ->
            [url |-> msg[2], state |-> self.state, spawned |-> <<>>]
      [] msg[1] = "GenBraille" ->
            [url |-> self.url, state |-> Requesting,
             spawned |-> <<do_request(env, self.url)>>]
      [] msg[1] = "SetBrailleState" ->
            [url |-> self.url, state |-> msg[2], spawned |-> <<>>]

\* ------------------------------------------------------------ state machine
\* App::create, and the first render.
Init ==
    /\ AA_ENDPOINT \in EndpointEnvs
    /\ input = ""
    /\ url = ""
    /\ state = Waiting
    /\ futures = <<>>
    /\ rendered = BrailleDisplay_view(Waiting)
    /\ nSubmits = 0
    /\ submitted = <<>>
    /\ delivered = <<>>
    /\ last = [msg |-> "none", prev |-> Waiting]

Handle_NoRerender(msg, fs) ==
    LET r == update(AA_ENDPOINT, [url |-> url, state |-> state], msg) IN
    /\ url' = r.url
    /\ state' = r.state
    /\ futures' = fs \o r.spawned
    /\ rendered' = IF msg[1] = "SetBrailleState" THEN rendered
                   ELSE BrailleDisplay_view(r.state)
    /\ last' = [msg |-> msg[1], prev |-> state]
    /\ UNCHANGED AA_ENDPOINT

Handle_SharedUrl(msg, fs) ==
    LET r == update(AA_ENDPOINT, [url |-> url, state |-> state], msg) IN
    /\ url' = r.url
    /\ state' = r.state
    /\ futures' = [i \in DOMAIN fs |->
                     IF fs[i].pc = "send"
                     THEN [fs[i] EXCEPT !.params = << <<"img_url", r.url>> >>]
                     ELSE fs[i]] \o r.spawned
    /\ rendered' = BrailleDisplay_view(r.state)
    /\ last' = [msg |-> msg[1], prev |-> state]
    /\ UNCHANGED AA_ENDPOINT

\* The scheduler runs App::update on msg, then App::view (update returns
\* true); fs is the futures as the step that sent msg leaves them.
Handle(msg, fs) ==
    LET r == update(AA_ENDPOINT, [url |-> url, state |-> state], msg) IN
    /\ url' = r.url
    /\ state' = r.state
    /\ futures' = fs \o r.spawned
    /\ rendered' = BrailleDisplay_view(r.state)
    /\ last' = [msg |-> msg[1], prev |-> state]
    /\ UNCHANGED AA_ENDPOINT

\* oninput of the text field: url_cb reads the field's value.
UrlChange(s) ==
    /\ input' = s
    /\ Handle(<<"UrlChange", s>>, futures)
    /\ UNCHANGED <<nSubmits, submitted, delivered>>

\* onclick of the Go button: btn_cb.
GenBraille ==
    /\ nSubmits < MaxSubmits
    /\ Handle(<<"GenBraille">>, futures)
    /\ nSubmits' = nSubmits + 1
    /\ submitted' = Append(submitted, input)
    /\ UNCHANGED <<input, delivered>>

\* Future i returns SetBrailleState(bs); send_future hands it to the
\* component, whose update runs before any other event.
SetBrailleState(i, fs, bs) ==
    /\ Handle(<<"SetBrailleState", bs>>,
              [fs EXCEPT ![i].pc = "done", ![i].bs = bs])
    /\ delivered' = Append(delivered, i)
    /\ UNCHANGED <<input, nSubmits, submitted>>

\* send().await of future i resolves with a response carrying a status;
\* the future suspends again at resp.text().await.
SendOk(i, status) ==
    /\ futures[i].pc = "send"
    /\ futures' = [futures EXCEPT ![i].pc = "text", ![i].req = <<"Ok">>,
                                  ![i].status = status]
    /\ UNCHANGED <<AA_ENDPOINT, input, url, state, rendered, nSubmits,
                   submitted, delivered, last>>

\* send().await of future i rejects: the future runs to its return.
SendErr(i, err) ==
    /\ futures[i].pc = "send"
    /\ SetBrailleState(i, [futures EXCEPT ![i].req = <<"Err", err>>],
                       do_request_err(err))

TextDone_PanicOnDecode(i, text) ==
    /\ futures[i].pc = "text"
    /\ IF text[1] = "Ok"
       THEN SetBrailleState(i, [futures EXCEPT ![i].text = text],
                            do_request_ok(futures[i].status, text))
       ELSE /\ futures' = [futures EXCEPT ![i].text = text, ![i].pc = "done"]
            /\ UNCHANGED <<AA_ENDPOINT, input, url, state, rendered, nSubmits,
                           submitted, delivered, last>>

\* resp.text().await of future i resolves or rejects: the future runs to
\* its return.
TextDone(i, text) ==
    /\ futures[i].pc = "text"
    /\ SetBrailleState(i, [futures EXCEPT ![i].text = text],
                       do_request_ok(futures[i].status, text))

TextOutcomes == {<<"Ok", b>> : b \in Bodies} \cup {<<"Err", e>> : e \in DecodeErrors}

\* The transport resolves or rejects one await of one outstanding request.
Network ==
    \E i \in DOMAIN futures :
        \/ \E status \in Statuses : SendOk(i, status)
        \/ \E err \in TransportErrors : SendErr(i, err)
        \/ \E text \in TextOutcomes : TextDone(i, text)

Next ==
    \/ \E s \in Urls : UrlChange(s)
    \/ GenBraille
    \/ Network

Spec == Init /\ [][Next]_vars

\* Every issued request eventually resolves or rejects and the event loop
\* runs the continuation; the user is under no obligation to act.
LiveSpec == Spec /\ WF_vars(Network)

TypeOK ==
    /\ url \in Urls
    /\ Tag(state) \in {"Waiting", "Requesting", "Showing", "Error"}
    /\ nSubmits \in 0..MaxSubmits

\* ------------------------------------------------------------ helpers of the properties
Outstanding(fs) == {i \in DOMAIN fs : fs[i].pc # "done"}
SubmitStep == nSubmits' = nSubmits + 1
Success(f) == f.req = <<"Ok">> /\ f.status \in 200..299
NonSuccess(f) == f.req = <<"Ok">> /\ f.status \notin 200..299
ConfiguredEndpoint == IF AA_ENDPOINT = <<>> THEN "/braille" ELSE AA_ENDPOINT[1]

\* ------------------------------------------------------------ properties

\* C1: the update step that handles GenBraille leaves the state Requesting,
\* whatever the state before, and the request it issues is still at its
\* first await when the step ends: no message of that request has been
\* handled (delivered is unchanged by the step).
C1_SubmitSetsPending ==
    [][SubmitStep =>
        /\ state' = Requesting
        /\ Len(futures') = Len(futures) + 1
        /\ futures'[Len(futures')].pc = "send"
        /\ delivered' = delivered]_vars

C1_Witness ==
    /\ last.msg = "GenBraille"
    /\ Tag(last.prev) = "Showing"
    /\ state = Requesting
    /\ futures[Len(futures)].pc = "send"

\* C2: a GenBraille handled while no request is outstanding sets the state
\* to Requesting and spawns exactly one future, a GET to the configured
\* endpoint whose only query parameter is img_url = the stored url; and at
\* every moment the number of requests issued is the number of submits.
C2_SubmitIssuesOneGet ==
    /\ [](Len(futures) = nSubmits)
    /\ [][(SubmitStep /\ Outstanding(futures) = {}) =>
            /\ state' = Requesting
            /\ Len(futures') = Len(futures) + 1
            /\ SubSeq(futures', 1, Len(futures)) = futures
            /\ futures'[Len(futures')].method = "GET"
            /\ futures'[Len(futures')].endpoint = ConfiguredEndpoint
            /\ futures'[Len(futures')].params = << <<"img_url", url>> >>]_vars

C2_Witness ==
    /\ last.msg = "GenBraille"
    /\ delivered = <<1>>
    /\ Len(futures) = 2
    /\ futures[2].params = << <<"img_url", "http://a/cat.png">> >>
    /\ futures[2].endpoint = "https://api.example/braille"

\* C3: every change of the state is Waiting->Requesting, Requesting->Showing,
\* Requesting->Error, Showing->Requesting or Error->Requesting.
C3_OnlyListedTransitions ==
    [][state' # state =>
        <<Tag(state), Tag(state')>> \in
            { <<"Waiting", "Requesting">>, <<"Requesting", "Showing">>,
              <<"Requesting", "Error">>, <<"Showing", "Requesting">>,
              <<"Error", "Requesting">> }]_vars

\* C4: under LiveSpec, whenever the state is Requesting it is later Showing
\* or Error.
C4_PendingResolves ==
    (Tag(state) = "Requesting") ~> (Tag(state) \in {"Showing", "Error"})

C4_Witness ==
    /\ last.msg = "SetBrailleState"
    /\ last.prev = Requesting
    /\ Tag(state) \in {"Showing", "Error"}

\* C5: after a single submit whose request got a 2xx status and a decodable
\* body b, the state is Showing(b); and the state is Showing(t) only if some
\* issued request completed with a 2xx status and body text t.
C5_SuccessShowsBody ==
    /\ (nSubmits = 1 /\ Len(futures) = 1 /\ futures[1].pc = "done"
            /\ Success(futures[1]) /\ futures[1].text[1] = "Ok")
        => state = <<"Showing", futures[1].text[2]>>
    /\ Tag(state) = "Showing" =>
        \E i \in DOMAIN futures :
            /\ futures[i].pc = "done"
            /\ Success(futures[i])
            /\ futures[i].text = <<"Ok", state[2]>>

C5_Witness ==
    /\ nSubmits = 1
    /\ futures[1].pc = "done"
    /\ futures[1].status = 204
    /\ futures[1].text = <<"Ok", "art">>
    /\ state = <<"Showing", "art">>

\* C6: after a single submit whose request got a non-2xx status and a
\* decodable body b, the state is Error(b), not Showing.
C6_NonSuccessShowsErrorBody ==
    (nSubmits = 1 /\ Len(futures) = 1 /\ futures[1].pc = "done"
        /\ NonSuccess(futures[1]) /\ futures[1].text[1] = "Ok")
    => state = <<"Error", futures[1].text[2]>>

C6_Witness ==
    /\ nSubmits = 1
    /\ futures[1].pc = "done"
    /\ futures[1].status = 400
    /\ futures[1].text = <<"Ok", "bad url">>
    /\ state = <<"Error", "bad url">>

\* C7: as long as the transport has rejected every request it answered, the
\* state is never Showing, and once every request of one or more submits
\* has completed the state is Error carrying the transport message of the
\* request that completed last.
C7_TransportFailureIsError ==
    (\A i \in DOMAIN futures : futures[i].req[1] \in {"none", "Err"})
    => /\ Tag(state) # "Showing"
       /\ (nSubmits > 0 /\ Outstanding(futures) = {})
            => /\ Tag(state) = "Error"
               /\ state[2] \in TransportErrors
               /\ state[2] = futures[delivered[Len(delivered)]].req[2]

C7_Witness ==
    /\ nSubmits = 2
    /\ Outstanding(futures) = {}
    /\ \A i \in DOMAIN futures : futures[i].req = <<"Err", "Failed to fetch">>
    /\ state = <<"Error", "Failed to fetch">>

\* C8: a request whose body could not be decoded returns Error(the decode
\* error), with a 2xx status as with any other; a request returns Showing
\* only if its body was decoded.
C8_DecodeFailureIsError ==
    \A i \in DOMAIN futures :
        futures[i].pc = "done" =>
            /\ futures[i].text[1] = "Err" =>
                    futures[i].bs = <<"Error", futures[i].text[2]>>
            /\ Tag(futures[i].bs) = "Showing" => futures[i].text[1] = "Ok"

C8_Witness ==
    \E i \in DOMAIN futures :
        /\ futures[i].pc = "done"
        /\ futures[i].status = 200
        /\ futures[i].text = <<"Err", "decode error">>
        /\ state = <<"Error", "decode error">>

\* C9: a GenBraille handled while a request is outstanding spawns one more
\* future and leaves the outstanding ones as they were; and once no request
\* is outstanding the state is what the request that completed last
\* returned.
C9_LastResponseWins ==
    /\ [][(SubmitStep /\ Outstanding(futures) # {}) =>
            /\ Len(futures') = Len(futures) + 1
            /\ SubSeq(futures', 1, Len(futures)) = futures
            /\ Outstanding(futures') = Outstanding(futures) \cup {Len(futures')}]_vars
    /\ []((nSubmits > 0 /\ Outstanding(futures) = {})
            => state = futures[delivered[Len(delivered)]].bs)

C9_Witness ==
    /\ delivered = <<2, 1>>
    /\ Outstanding(futures) = {}
    /\ futures[1].bs # futures[2].bs
    /\ state = futures[1].bs

\* C10: two submits of the same text, answered alike whenever the two
\* requests carry the same parameters, end in the state the first request
\* alone resolved to, also when the second submit came before the first
\* response.
SameAnswer(f, g) == f.req = g.req /\ f.status = g.status /\ f.text = g.text

C10_Idempotent ==
    (/\ nSubmits = 2
     /\ submitted[1] = submitted[2]
     /\ Outstanding(futures) = {}
     /\ Len(futures) = 2
     /\ futures[1].params = futures[2].params => SameAnswer(futures[1], futures[2]))
    => /\ state = futures[1].bs
       /\ futures[2].bs = futures[1].bs

C10_Witness ==
    /\ nSubmits = 2
    /\ submitted = <<"http://a/cat.png", "http://a/cat.png">>
    /\ delivered = <<2, 1>>
    /\ SameAnswer(futures[1], futures[2])
    /\ state = futures[1].bs

\* C11: the stored url is the value most recently entered in the text
\* field (the empty string before any edit), in particular when GenBraille
\* is handled, and the request of the k-th submit carries as img_url the
\* text the field held at that submit.
C11_SubmitSendsLatestText ==
    /\ url = input
    /\ Len(futures) = Len(submitted)
    /\ \A k \in DOMAIN submitted :
            futures[k].params = << <<"img_url", submitted[k]>> >>

C11_Witness ==
    /\ last.msg = "GenBraille"
    /\ submitted = <<"http://a/cat.png", "">>
    /\ futures[1].params = << <<"img_url", "http://a/cat.png">> >>
    /\ futures[2].params = << <<"img_url", "">> >>

\* C12: a step that handles UrlChange stores the new text in url and leaves
\* the state, the futures (none issued, none touched), the rendered view and
\* the submit and delivery histories as they were.
UrlChangeStep == last'.msg = "UrlChange" /\ (last' # last \/ input' # input)

C12_UrlChangeOnlyStores ==
    [][UrlChangeStep =>
        /\ url' = input'
        /\ state' = state
        /\ futures' = futures
        /\ rendered' = rendered
        /\ nSubmits' = nSubmits
        /\ delivered' = delivered]_vars

C12_Witness ==
    /\ last.msg = "UrlChange"
    /\ state = Requesting
    /\ url = "http://a/cat.png"
    /\ Len(futures) = 1
    /\ futures[1].pc = "text"
    /\ futures[1].params = << <<"img_url", "">> >>

\* C13: as long as no GenBraille has been handled the state is Waiting and
\* the rendered view is the empty <div class="waiting">, whatever was typed.
C13_PlaceholderBeforeSubmit ==
    nSubmits = 0 =>
        /\ state = <<"Waiting">>
        /\ rendered = [class |-> "waiting", children |-> <<>>]

C13_Witness ==
    /\ nSubmits = 0
    /\ last.msg = "UrlChange"
    /\ url = "http://a/cat.png"
    /\ rendered = [class |-> "waiting", children |-> <<>>]

\* C14: in every state the rendered view is the one of the current state:
\* the empty placeholder for Waiting, "Loading..." for Requesting, the text
\* in the braille container for Showing, the message in the error container
\* for Error; and the kind of view read off the rendered element is the tag
\* of the state, also for empty text.
ViewKind(r) ==
    CASE r.class = "braille" -> "Showing"
      [] r.class = "error"   -> "Error"
      [] r.class = "waiting" /\ r.children = <<"Loading...">> -> "Requesting"
      [] r.class = "waiting" /\ r.children = <<>> -> "Waiting"
      [] OTHER -> "unknown"

C14_ViewFollowsState ==
    /\ ViewKind(rendered) = Tag(state)
    /\ Tag(state) = "Waiting" => rendered = [class |-> "waiting", children |-> <<>>]
    /\ Tag(state) = "Requesting" =>
            rendered = [class |-> "waiting", children |-> <<"Loading...">>]
    /\ Tag(state) = "Showing" =>
            rendered = [class |-> "braille", children |-> <<state[2]>>]
    /\ Tag(state) = "Error" =>
            rendered = [class |-> "error", children |-> <<state[2]>>]

C14_Witness ==
    /\ last.msg = "SetBrailleState"
    /\ state = <<"Showing", "">>
    /\ rendered = [class |-> "braille", children |-> <<"">>]

\* C15: only a GenBraille step issues a request (an Error outcome spawns
\* none), and a step that is not a GenBraille, taken while the state is
\* Error and no request is outstanding, leaves the state as it is.
C15_ErrorsAreTerminal ==
    /\ [][~SubmitStep => Len(futures') = Len(futures)]_vars
    /\ [][(Tag(state) = "Error" /\ Outstanding(futures) = {} /\ ~SubmitStep)
            => state' = state]_vars

C15_Witness ==
    /\ last.msg = "UrlChange"
    /\ Tag(last.prev) = "Error"
    /\ Tag(state) = "Error"
    /\ Outstanding(futures) = {}
    /\ Len(futures) = 1

\* C16: no step changes the method, endpoint or parameters of a future
\* already spawned, and the img_url of every future is the text stored at
\* its submit, whatever url holds now.
C16_UrlReadOnceAtSubmit ==
    /\ [][\A i \in DOMAIN futures :
            /\ i \in DOMAIN futures'
            /\ futures'[i].params = futures[i].params
            /\ futures'[i].endpoint = futures[i].endpoint
            /\ futures'[i].method = futures[i].method]_vars
    /\ [](\A i \in DOMAIN futures :
            i \in DOMAIN submitted
            /\ futures[i].params = << <<"img_url", submitted[i]>> >>)

C16_Witness ==
    /\ Len(futures) = 1
    /\ futures[1].pc = "send"
    /\ futures[1].params = << <<"img_url", "">> >>
    /\ url = "http://a/cat.png"
    /\ last.msg = "UrlChange"

\* C17: whenever the state is Requesting some request is outstanding.
C17_PendingHasOutstanding ==
    state = <<"Requesting">> => Outstanding(futures) # {}

C17_Witness ==
    /\ state = <<"Requesting">>
    /\ delivered = <<1>>
    /\ Outstanding(futures) = {2}

\* C18: the state is Waiting exactly when no GenBraille has been handled.
C18_IdleIffNoSubmit ==
    (state = <<"Waiting">>) <=> (nSubmits = 0)

C18_Witness ==
    /\ nSubmits = 2
    /\ Outstanding(futures) = {}
    /\ last.msg = "UrlChange"
    /\ Tag(state) \in {"Showing", "Error"}

\* C19: the futures whose message was handled are exactly the completed
\* ones, each handled once, each message carrying Showing or Error; so the
\* number of messages handled never exceeds the number of submits and equals
\* it when no request is outstanding.
C19_OneMessagePerRequest ==
    /\ \A i \in DOMAIN futures :
            /\ Cardinality({k \in DOMAIN delivered : delivered[k] = i})
                    = (IF futures[i].pc = "done" THEN 1 ELSE 0)
            /\ futures[i].pc = "done" => Tag(futures[i].bs) \in {"Showing", "Error"}
    /\ \A k \in DOMAIN delivered : delivered[k] \in DOMAIN futures
    /\ Len(delivered) <= nSubmits
    /\ Outstanding(futures) = {} => Len(delivered) = nSubmits

C19_Witness ==
    /\ nSubmits = 2
    /\ delivered = <<2, 1>>
    /\ Outstanding(futures) = {}
    /\ Tag(futures[1].bs) = "Error"
    /\ Tag(futures[2].bs) = "Showing"
====
